---- MODULE Spec2Model ----
(***************************************************************************)
(* AudioService (gapless playback engine) of infinite-vibes.               *)
(*                                                                         *)
(* Times are counted in sample periods (1/SAMPLE_RATE s), so that every    *)
(* time, duration and level of the program is an exact integer:            *)
(*   seconds = samples / SAMPLE_RATE,                                      *)
(*   bufferLevel = bufferLevel-numerator / BufferFull.                     *)
(* JavaScript runs every handler to completion, so each action is one      *)
(* synchronous run of a handler up to its next await.                      *)
(***************************************************************************)
EXTENDS Integers, Sequences, FiniteSets, TLC

(* ---- program constants ---- *)
SAMPLE_RATE == 24000
LOOKAHEAD_TIME_MS == 100
FADE_DURATION_MS == 50
BUFFER_FULL_SECONDS == 5
LOOKAHEAD_FACTOR == 10

(* ---- bounds of the model ---- *)
MaxChunks == 3
MaxTicks == 1
MaxCalls == 2
TimeStep == 48000
MaxListeners == 2
MaxCtlChunks == 1
MaxCtlCalls == 1
MaxSamples == 2
MaxDeliveries == 2

(* lengths (in samples) of the chunks the generation service delivers:     *)
(* 25 ms (shorter than the fade) and 2 s (longer than the look-ahead)      *)
ChunkLens == {600, 48000}

Min(a, b) == IF a < b THEN a ELSE b
Max(a, b) == IF a > b THEN a ELSE b

(* LOOKAHEAD_TIME * 10 seconds, in samples *)
LookaheadCeiling == (LOOKAHEAD_TIME_MS * LOOKAHEAD_FACTOR * SAMPLE_RATE) \div 1000
(* Math.floor(FADE_DURATION * SAMPLE_RATE) *)
fadeSamples == (FADE_DURATION_MS * SAMPLE_RATE) \div 1000
(* the "5 seconds is full" window, in samples *)
BufferFull == BUFFER_FULL_SECONDS * SAMPLE_RATE
(* UI_CONFIG.INACTIVITY_TIMEOUT, in ms *)
INACTIVITY_TIMEOUT == 3000
(* API_CONFIG.MAX_RECONNECT_ATTEMPTS *)
MAX_RECONNECT_ATTEMPTS == 5

VARIABLES
  audioContext,          \* "none" | "suspended" | "running": the context and its state
  currentTime,           \* audioContext.currentTime, in samples
  playbackState,         \* 'stopped' | 'playing' | 'paused'
  nextStartTime,
  scheduledSources,      \* sequence of source nodes [id, start, dur]
  audioQueue,            \* sequence of AudioBuffers [id, length, fadeLength]
  isProcessingQueue,
  bufferLevel,           \* numerator of bufferLevel over BufferFull
  totalBufferedDuration, \* in samples
  pcPlay, pcPause, pcStop, \* position of the pending play(), pause(), stop() call
  ctxOps,                \* suspend()/resume() requests not yet resolved, in order
  rafPending,            \* requestAnimationFrame callbacks not yet run
  pendingEnded,          \* started sources whose onended has not yet run
  (* history *)
  sink,                  \* segments handed to source.start(), in order
  underruns,             \* number of 'underrun' events emitted
  nextId,                \* number of chunks accepted so far
  firstAfterStop,        \* ids of the chunks accepted first after a stop() call
  stopSeen,              \* stop() was called and no chunk accepted since
  stopNoPlay,            \* stop() was called and play() not called since
  calls,                 \* number of play(), pause(), stop() calls so far
  last,                  \* what the last step did, and the levels before it
  volume,                \* this.volume, as <<numerator, denominator>>
  listeners,             \* eventListeners: the callbacks of each event type, in order
  delivered,             \* the callbacks the last step invoked, in order
  extraStops,            \* stop() calls awaiting suspend() besides the one of pcStop:
                         \* made by a listener, or right after another stop()
  guardReturns,          \* processAudioQueue() calls of the last step that returned
                         \* because a pass was in progress
  api,                   \* the ApiService: ws, connectionState, setupComplete, ...
  sockets,               \* the WebSockets created so far, with the promise and
                         \* the timeout of the connect() call that created each
  orchestrator,          \* the PromptDJOrchestrator: playbackState, isConnected,
                         \* and the position of its pending play(), pause(), stop()
  inactivity             \* the InactivityService, its timer, the clock (Date.now())
                         \* and the events it has emitted

vars == <<audioContext, currentTime, playbackState, nextStartTime, scheduledSources,
          audioQueue, isProcessingQueue, bufferLevel, totalBufferedDuration,
          pcPlay, pcPause, pcStop, ctxOps, rafPending, pendingEnded,
          sink, underruns, nextId, firstAfterStop, stopSeen, stopNoPlay,
          calls, last, volume, listeners, delivered, extraStops, guardReturns,
          api, sockets, orchestrator, inactivity>>

(* the engine and its environment as one record, so that the methods are   *)
(* functions from records to records                                       *)
Self ==
  [audioContext |-> audioContext, currentTime |-> currentTime,
   playbackState |-> playbackState, nextStartTime |-> nextStartTime,
   scheduledSources |-> scheduledSources, audioQueue |-> audioQueue,
   isProcessingQueue |-> isProcessingQueue, bufferLevel |-> bufferLevel,
   totalBufferedDuration |-> totalBufferedDuration,
   rafPending |-> rafPending, pendingEnded |-> pendingEnded,
   sink |-> sink, underruns |-> underruns, stopNoPlay |-> stopNoPlay,
   volume |-> volume, listeners |-> listeners,
   nextId |-> nextId, extraStops |-> extraStops,
   api |-> api, sockets |-> sockets, orchestrator |-> orchestrator,
   inactivity |-> inactivity,
   delivered |-> <<>>,   \* nothing invoked yet by the step that starts
   guardReturns |-> 0,
   depth |-> 0,          \* drain passes on the call stack
   sourceFails |-> 0,    \* the buffer of a pass at which createBufferSource() throws
   passThrew |-> FALSE,  \* an exception has left a drain pass in this step
   threw |-> FALSE,      \* an exception is propagating out of the method
   returned |-> [socket |-> 0, value |-> "none"]]  \* what connect() returned

Apply(result) ==
  \E s \in {result} :
  /\ audioContext' = s.audioContext
  /\ currentTime' = s.currentTime
  /\ playbackState' = s.playbackState
  /\ nextStartTime' = s.nextStartTime
  /\ scheduledSources' = s.scheduledSources
  /\ audioQueue' = s.audioQueue
  /\ isProcessingQueue' = s.isProcessingQueue
  /\ bufferLevel' = s.bufferLevel
  /\ totalBufferedDuration' = s.totalBufferedDuration
  /\ rafPending' = s.rafPending
  /\ pendingEnded' = s.pendingEnded
  /\ sink' = s.sink
  /\ underruns' = s.underruns
  /\ stopNoPlay' = s.stopNoPlay
  /\ volume' = s.volume
  /\ listeners' = s.listeners
  /\ delivered' = s.delivered
  /\ nextId' = s.nextId
  /\ extraStops' = s.extraStops
  /\ guardReturns' = s.guardReturns
  /\ api' = s.api
  /\ sockets' = s.sockets
  /\ orchestrator' = s.orchestrator
  /\ inactivity' = s.inactivity

(* the value of an expression, computed once: the only element of {e} *)
Only(S) == CHOOSE x \in S : TRUE

(* ---- utils/audio ---- *)

(* applyFadeIn: result[i] = data[i] * (i / fadeLength) for i < fadeLength. *)
(* A buffer carries the length of the ramp applied to it (0: untouched).   *)
applyFadeIn(data, nFade) ==
  [data EXCEPT !.fadeLength = Min(nFade, data.length)]

(* gain applied to sample i of a buffer, as <<numerator, denominator>> *)
Gain(buf, i) == IF i < buf.fadeLength THEN <<i, buf.fadeLength>> ELSE <<1, 1>>

(* A base64 text is a sequence of characters: 0..63 is the character of   *)
(* that sextet, PAD is '=', BAD is a character outside the alphabet.       *)
PAD == 64
BAD == 65

(* btoa: three bytes give four characters, a rest of one or two bytes is   *)
(* padded with '='                                                         *)
RECURSIVE btoa(_)
btoa(b) ==
  IF Len(b) = 0 THEN <<>>
  ELSE IF Len(b) = 1 THEN <<b[1] \div 4, (b[1] % 4) * 16, PAD, PAD>>
  ELSE IF Len(b) = 2
  THEN <<b[1] \div 4, (b[1] % 4) * 16 + b[2] \div 16, (b[2] % 16) * 4, PAD>>
  ELSE <<b[1] \div 4, (b[1] % 4) * 16 + b[2] \div 16,
         (b[2] % 16) * 4 + b[3] \div 64, b[3] % 64>> \o btoa(SubSeq(b, 4, Len(b)))

(* the bytes of a sequence of sextets whose length is not 1 modulo 4: the  *)
(* bits left over at the end are discarded                                 *)
RECURSIVE sextetsToBytes(_)
sextetsToBytes(c) ==
  IF Len(c) < 2 THEN <<>>
  ELSE IF Len(c) = 2 THEN <<c[1] * 4 + c[2] \div 16>>
  ELSE IF Len(c) = 3
  THEN <<c[1] * 4 + c[2] \div 16, (c[2] % 16) * 16 + c[3] \div 4>>
  ELSE <<c[1] * 4 + c[2] \div 16, (c[2] % 16) * 16 + c[3] \div 4,
         (c[3] % 4) * 64 + c[4]>> \o sextetsToBytes(SubSeq(c, 5, Len(c)))

(* atob (forgiving-base64 decode): one or two '=' at the end of a text     *)
(* whose length is a multiple of 4 are removed; a length of 1 modulo 4 or  *)
(* a character outside the alphabet throws InvalidCharacterError           *)
atob(text) ==
  LET n == Len(text)
      data == IF n % 4 = 0 /\ n > 0 /\ text[n] = PAD
              THEN IF text[n - 1] = PAD THEN SubSeq(text, 1, n - 2)
                   ELSE SubSeq(text, 1, n - 1)
              ELSE text
  IN IF Len(data) % 4 = 1 \/ \E i \in 1..Len(data) : data[i] \notin 0..63
     THEN [threw |-> TRUE, bytes |-> <<>>]
     ELSE [threw |-> FALSE, bytes |-> sextetsToBytes(data)]

(* base64ToUint8Array: the char codes of atob(base64) *)
base64ToUint8Array(base64) == atob(base64)

(* the store into an Int16Array element: ToInt16 of a value in 0..65535 *)
ToInt16(v) == IF v >= 32768 THEN v - 65536 ELSE v

(* uint8ArrayToInt16Array with the bytes of a pair in the other order *)
uint8ArrayToInt16ArrayBigEndian(uint8Array) ==
  [i \in 1..(Len(uint8Array) \div 2) |->
     ToInt16(uint8Array[2 * i - 1] * 256 + uint8Array[2 * i])]

(* uint8ArrayToInt16Array: new Int16Array(length / 2) truncates the length, *)
(* each element is (highByte << 8) | lowByte stored as a signed 16-bit     *)
(* value, and lowered by 65536 if above 32767                              *)
uint8ArrayToInt16Array(uint8Array) ==
  [i \in 1..(Len(uint8Array) \div 2) |->
     LET lowByte == uint8Array[2 * i - 1]
         highByte == uint8Array[2 * i]
         stored == ToInt16(highByte * 256 + lowByte)
     IN IF stored > 32767 THEN stored - 65536 ELSE stored]

(* int16ArrayToFloat32Array: each sample times 1/32768, which a float      *)
(* holds exactly; a float is <<numerator, denominator>>                    *)
int16ArrayToFloat32Array(int16Array) ==
  [i \in 1..Len(int16Array) |-> <<int16Array[i], 32768>>]

(* base64PcmToFloat32: what atob throws leaves the function *)
base64PcmToFloat32(base64) ==
  LET uint8Array == base64ToUint8Array(base64)
  IN IF uint8Array.threw THEN [threw |-> TRUE, data |-> <<>>]
     ELSE [threw |-> FALSE,
           data |-> int16ArrayToFloat32Array(uint8ArrayToInt16Array(uint8Array.bytes))]

(* ---- AudioService ---- *)

(* the event types the constructor creates a listener set for *)
EventTypes == {"state-change", "volume-change", "underrun", "buffer-update"}

(* on(eventType, callback): eventListeners.get(eventType)?.add(callback).  *)
(* eventListeners maps each event type to its callbacks in insertion       *)
(* order; a callback is what it does when invoked: "returns" or "throws".  *)
on(s, eventType, callback) ==
  IF eventType \in DOMAIN s.listeners
  THEN [s EXCEPT !.listeners[eventType] = Append(@, callback)]
  ELSE s

(* the forEach of emit, from callback i on, without the try/catch: the     *)
(* first callback that throws ends the iteration and the exception goes on *)
RECURSIVE forEachNoCatch(_, _, _)
forEachNoCatch(s, type, i) ==
  IF i > Len(s.listeners[type]) THEN s
  ELSE LET s1 == [s EXCEPT !.delivered =
                     Append(@, [type |-> type, listener |-> i,
                                callback |-> s.listeners[type][i]])]
       IN IF s.listeners[type][i] = "throws"
          THEN [s1 EXCEPT !.threw = TRUE]
          ELSE forEachNoCatch(s1, type, i + 1)

(* stop() with a forEach that loses every second source, as one that      *)
(* removes the sources from the array it iterates would                   *)
stopSyncSkips(s) ==
  LET halted == {s.scheduledSources[i].id :
                   i \in {j \in 1..Len(s.scheduledSources) : j % 2 = 1}}
  IN [s EXCEPT !.pendingEnded = {[p EXCEPT !.stopped = @ \/ p.id \in halted] : p \in @},
               !.scheduledSources = SelectSeq(@, LAMBDA x : x.id \notin halted),
               !.audioQueue = <<>>,
               !.totalBufferedDuration = 0,
               !.bufferLevel = 0,
               !.nextStartTime = 0]

(* stop(), up to its await *)
stopSync(s) ==
  [s EXCEPT !.pendingEnded = {[p EXCEPT !.stopped =
                                  @ \/ \E i \in 1..Len(s.scheduledSources) :
                                         s.scheduledSources[i].id = p.id] : p \in @},
            !.scheduledSources = <<>>,
            !.audioQueue = <<>>,
            !.totalBufferedDuration = 0,
            !.bufferLevel = 0,
            !.nextStartTime = 0]

(* the segment last handed to the sink is the one a stop() cuts *)
cutLast(sink0) ==
  [i \in 1..Len(sink0) |->
     IF i = Len(sink0) THEN [sink0[i] EXCEPT !.cut = TRUE] ELSE sink0[i]]

(* stop() called while the context exists (by a listener of 'underrun',    *)
(* which runs inside a drain pass, or as a second call in a row), up to    *)
(* `await this.audioContext.suspend()`                                     *)
stopInListener(s) ==
  [stopSync(s) EXCEPT !.stopNoPlay = TRUE,
                      !.sink = cutLast(s.sink),
                      !.extraStops = @ + 1]

(* the length of the chunks a listener queues *)
ListenerChunkLen == CHOOSE l \in ChunkLens : \A m \in ChunkLens : l <= m

RECURSIVE queueAudioChunk(_, _, _)

(* what a callback does when invoked: "returns" and "throws" touch nothing *)
(* of the engine, "stops" calls stop(), "queues" calls queueAudioChunk()   *)
(* with a new chunk while there are chunks left to deliver                 *)
invoke(s, callback) ==
  CASE callback = "stops" -> stopInListener(s)
    [] callback = "orchestrator" ->
         [s EXCEPT !.orchestrator.playbackState = s.playbackState]
    [] callback = "queues" ->
         IF s.nextId < MaxChunks
         THEN queueAudioChunk([s EXCEPT !.nextId = @ + 1], s.nextId + 1,
                              ListenerChunkLen)
         ELSE s
    [] OTHER -> s

(* the forEach of emit, from callback i on: each callback is invoked inside *)
(* try/catch, so what it throws is logged and the iteration goes on         *)
RECURSIVE forEach(_, _, _)
forEach(s, type, i) ==
  IF i > Len(s.listeners[type]) THEN s
  ELSE LET callback == s.listeners[type][i]
           s1 == [s EXCEPT !.delivered =
                    Append(@, [type |-> type, listener |-> i,
                               callback |-> callback])]
       IN Only({forEach(invoked, type, i + 1) : invoked \in {invoke(s1, callback)}})

emitNoCatch(s, type) ==
  IF type \in DOMAIN s.listeners THEN forEachNoCatch(s, type, 1) ELSE s
emit(s, type) ==
  IF type \in DOMAIN s.listeners THEN forEach(s, type, 1) ELSE s

(* initialize(): made is what new AudioContext() gives: it throws          *)
(* ("failed"), or the context starts suspended (autoplay policy) or running *)
initialize(s, made) ==
  IF s.audioContext # "none" THEN s
  ELSE IF made = "failed" THEN s
  ELSE [s EXCEPT !.audioContext = made]

setPlaybackState(s, state) ==
  IF s.playbackState # state
  THEN emit([s EXCEPT !.playbackState = state], "state-change")
  ELSE s

(* Math.max(0, Math.min(1, v)) on <<numerator, denominator>>, denominator > 0 *)
MathMin1(v) == IF v[1] > v[2] THEN <<1, 1>> ELSE v
MathMax0(v) == IF v[1] < 0 THEN <<0, 1>> ELSE v

setVolumeUnclamped(s, v) == emit([s EXCEPT !.volume = v], "volume-change")
setVolume(s, v) == emit([s EXCEPT !.volume = MathMax0(MathMin1(v))], "volume-change")

(* this.audioQueue.shift(): the buffer taken and the queue left *)
shiftLast(q) == [buffer |-> q[Len(q)], rest |-> SubSeq(q, 1, Len(q) - 1)]
shift(q) == [buffer |-> Head(q), rest |-> Tail(q)]

(* the underrun check: nextStartTime < currentTime *)
isUnderrunOrEqual(nst, now) == nst <= now
isUnderrunCheck(nst, now) == nst < now

(* the time passed to source.start(): nextStartTime, reset to now on underrun *)
startTimeImmediate(nst, now) == now
startTime(nst, now) == IF isUnderrunCheck(nst, now) THEN now ELSE nst

(* the guard of processAudioQueue *)
mayProcessNoFlag(s) == ~(s.audioContext = "none" \/ s.playbackState # "playing")
mayProcessAnyState(s) == ~(s.isProcessingQueue \/ s.audioContext = "none")
mayProcess(s) ==
  ~(s.isProcessingQueue \/ s.audioContext = "none" \/ s.playbackState # "playing")

(* the while loop of processAudioQueue; now is the currentTime read before it, *)
(* nth counts the buffers the pass has taken                                  *)
RECURSIVE DrainLoop(_, _, _)

(* the body of the loop after the underrun check: s is the engine before   *)
(* the iteration, checked the engine after the check                       *)
startBuffer(s, checked, now, nth) ==
  LET buffer == shift(s.audioQueue).buffer
      (* source.start(this.nextStartTime): the field as the listeners of *)
      (* 'underrun' left it                                              *)
      startAt == checked.nextStartTime
      source == [id |-> buffer.id, start |-> startAt, dur |-> buffer.length]
      entry == [id |-> buffer.id, start |-> startAt, dur |-> buffer.length,
                fadeLength |-> buffer.fadeLength, now |-> now,
                nstBefore |-> s.nextStartTime,
                underrun |-> isUnderrunCheck(s.nextStartTime, now),
                nth |-> nth, state |-> s.playbackState,
                stopNoPlay |-> checked.stopNoPlay, cut |-> FALSE,
                depth |-> s.depth]
      s1 == [checked EXCEPT
                      !.scheduledSources = Append(@, source),
                      !.pendingEnded = @ \cup {[id |-> source.id, start |-> source.start,
                                                dur |-> source.dur, stopped |-> FALSE]},
                      !.sink = Append(@, entry),
                      !.nextStartTime = startAt + buffer.length]
  IN IF checked.threw THEN checked
     ELSE IF s.sourceFails = nth THEN [checked EXCEPT !.threw = TRUE]
     ELSE IF s1.nextStartTime - now > LookaheadCeiling THEN s1
     ELSE DrainLoop(s1, now, nth + 1)

DrainLoop(s, now, nth) ==
  IF Len(s.audioQueue) = 0 THEN s
  ELSE
    LET taken == [s EXCEPT !.audioQueue = shift(s.audioQueue).rest]
        timed == [taken EXCEPT !.nextStartTime = startTime(s.nextStartTime, now)]
    IN Only({startBuffer(s, checked, now, nth) :
               checked \in {IF isUnderrunCheck(s.nextStartTime, now)
                            THEN emit([timed EXCEPT !.underruns = @ + 1], "underrun")
                            ELSE timed}})

(* processAudioQueue that never asks for another pass *)
afterPassNoRecheck(s1) ==
  IF s1.threw THEN [s1 EXCEPT !.passThrew = TRUE] ELSE s1

(* processAudioQueue after its try/finally: s1 is the engine the loop left *)
afterPass(s1) ==
  IF s1.threw THEN [s1 EXCEPT !.passThrew = TRUE]
  ELSE IF Len(s1.audioQueue) > 0 /\ s1.playbackState = "playing"
  THEN [s1 EXCEPT !.rafPending = @ + 1]
  ELSE s1

processAudioQueue(s) ==
  IF ~mayProcess(s)
  THEN [s EXCEPT !.guardReturns = IF s.isProcessingQueue THEN @ + 1 ELSE @]
  ELSE
    (* finally { this.isProcessingQueue = false; } *)
    Only({afterPass([s1 EXCEPT !.isProcessingQueue = FALSE, !.depth = @ - 1]) :
            s1 \in {DrainLoop([s EXCEPT !.isProcessingQueue = TRUE, !.depth = @ + 1],
                              s.currentTime, 1)}})

(* "first chunk after silence": nothing queued and nothing scheduled *)
afterSilencePlaying(s) == Len(s.audioQueue) = 0 /\ s.playbackState = "playing"
afterSilence(s) == Len(s.audioQueue) = 0 /\ Len(s.scheduledSources) = 0

(* queueAudioChunk after the 'buffer-update' event *)
afterBufferUpdate(s2) ==
  [(IF ~s2.threw /\ s2.playbackState = "playing"
    THEN processAudioQueue(s2)
    ELSE s2) EXCEPT !.threw = FALSE]   \* catch (error) { console.error(...) }

(* queueAudioChunk, for a chunk that decodes to len samples *)
queueAudioChunk(s, id, len) ==
  IF s.audioContext = "none" THEN s
  ELSE
    LET float32Data == [id |-> id, length |-> len, fadeLength |-> 0]
        processedData ==
          IF afterSilence(s)
          THEN applyFadeIn(float32Data, fadeSamples)
          ELSE float32Data
        total == s.totalBufferedDuration + processedData.length
        s1 == [s EXCEPT !.audioQueue = Append(@, processedData),
                        !.totalBufferedDuration = total,
                        !.bufferLevel = Min(BufferFull, total)]
    IN Only({afterBufferUpdate(s2) : s2 \in {emit(s1, "buffer-update")}})

(* queueAudioChunk without its try/catch: what the decoding or            *)
(* createBuffer throws leaves the method                                   *)
queueAudioChunkBase64NoCatch(s, id, base64Data) ==
  IF s.audioContext = "none" THEN s
  ELSE LET float32Data == base64PcmToFloat32(base64Data)
       IN IF float32Data.threw \/ Len(float32Data.data) = 0
          THEN [s EXCEPT !.threw = TRUE]
          ELSE queueAudioChunk(s, id, Len(float32Data.data))

(* queueAudioChunk(base64Data): the chunk is decoded inside the try; what  *)
(* atob throws, and the NotSupportedError of createBuffer for a chunk of   *)
(* no samples, are caught and logged before any field is assigned          *)
queueAudioChunkBase64(s, id, base64Data) ==
  IF s.audioContext = "none" THEN s
  ELSE LET float32Data == base64PcmToFloat32(base64Data)
       IN IF float32Data.threw \/ Len(float32Data.data) = 0
          THEN s
          ELSE queueAudioChunk(s, id, Len(float32Data.data))

onendedNoFloor(s, src) ==
  LET kept == SelectSeq(s.scheduledSources, LAMBDA x : x.id # src.id)
      total == s.totalBufferedDuration - src.dur
  IN [s EXCEPT !.scheduledSources = kept,
               !.totalBufferedDuration = total,
               !.bufferLevel = Min(BufferFull, total)]

onendedStaleLevel(s, src) ==
  LET kept == SelectSeq(s.scheduledSources, LAMBDA x : x.id # src.id)
      total == Max(0, s.totalBufferedDuration - src.dur)
  IN [s EXCEPT !.scheduledSources = kept,
               !.totalBufferedDuration = total]

(* source.onended of the source src *)
onended(s, src) ==
  LET kept == SelectSeq(s.scheduledSources, LAMBDA x : x.id # src.id)
      total == Max(0, s.totalBufferedDuration - src.dur)
  IN [s EXCEPT !.scheduledSources = kept,
               !.totalBufferedDuration = total,
               !.bufferLevel = Min(BufferFull, total)]

(* play() that does not call processAudioQueue() *)
playFinishNoDrain(s) == setPlaybackState(s, "playing")

(* play(), once the context runs: setPlaybackState('playing') and          *)
(* processAudioQueue()                                                     *)
playFinish(s) ==
  LET s1 == setPlaybackState(s, "playing")
  IN IF s1.threw THEN s1 ELSE processAudioQueue(s1)

(* stop(), after its await: setPlaybackState('stopped') and the            *)
(* 'buffer-update' event                                                   *)
stopFinish(s) ==
  LET s1 == setPlaybackState(s, "stopped")
  IN IF s1.threw THEN s1 ELSE emit(s1, "buffer-update")

(* pause(), after its await: setPlaybackState('paused') *)
pauseFinishDrops(s) ==
  setPlaybackState([s EXCEPT !.audioQueue = <<>>, !.totalBufferedDuration = 0,
                             !.bufferLevel = 0], "paused")
pauseFinish(s) == setPlaybackState(s, "paused")

(* ---- ApiService ---- *)

(* the sockets a run may create *)
MaxSockets == 2

(* the ApiService events PromptDJOrchestrator.setupServiceHandlers listens to *)
ApiHandled == {"connected", "disconnected", "audio", "error"}

(* what the orchestrator's handler of an ApiService event does: it keeps   *)
(* isConnected, and hands the data of an 'audio' event to the audio engine *)
apiHandler(s, type) ==
  CASE type = "connected" -> [s EXCEPT !.orchestrator.isConnected = TRUE]
    [] type = "disconnected" -> [s EXCEPT !.orchestrator.isConnected = FALSE]
    [] type = "audio" ->
         queueAudioChunk([s EXCEPT !.nextId = @ + 1], s.nextId + 1, ListenerChunkLen)
    [] OTHER -> s

(* ApiService.emit: eventListeners holds the event types that still have  *)
(* the handler the orchestrator registered                                 *)
apiEmit(s, type) ==
  IF type \in s.api.eventListeners THEN apiHandler(s, type) ELSE s

(* resolve(value) of the promise connect() returned for socket id: the     *)
(* first call settles the promise, later ones do nothing                   *)
resolve(s, id, value) ==
  IF s.sockets[id].promise = "pending"
  THEN [s EXCEPT !.sockets[id].promise = value]
  ELSE s

(* WebSocket.close() on this.ws (0 is null): the close event comes later *)
close(s, id) ==
  IF id # 0 /\ s.sockets[id].readyState \in {"connecting", "open"}
  THEN [s EXCEPT !.sockets[id].readyState = "closing"]
  ELSE s

(* connect(): apiKey is whether getApiKey() finds a key *)
connect(s, apiKey) ==
  IF s.api.connected \/ s.api.connecting
  THEN [s EXCEPT !.returned =
          [socket |-> 0, value |-> IF s.api.connected THEN "true" ELSE "false"]]
  ELSE IF ~apiKey
  THEN [apiEmit(s, "error") EXCEPT !.returned = [socket |-> 0, value |-> "false"]]
  ELSE [s EXCEPT !.api.connecting = TRUE,
                 !.api.setupComplete = FALSE,
                 !.api.ws = Len(s.sockets) + 1,
                 !.sockets = Append(@, [readyState |-> "connecting",
                                        promise |-> "pending",
                                        timeout |-> TRUE,
                                        discarded |-> FALSE]),
                 !.returned = [socket |-> Len(s.sockets) + 1, value |-> "pending"]]

(* ws.onopen *)
onopen(s) ==
  [s EXCEPT !.api.connecting = FALSE,
            !.api.connected = TRUE,
            !.api.reconnectAttempts = 0]

(* ws.onmessage of socket id: handleWebSocketMessage emits 'audio' for a   *)
(* message with inline audio data; the first message completes the setup   *)
onmessage(s, id, message) ==
  LET handled == IF message = "audio" THEN apiEmit(s, "audio") ELSE s
  IN IF ~handled.api.setupComplete
     THEN resolve(apiEmit([handled EXCEPT !.api.setupComplete = TRUE], "connected"),
                  id, "true")
     ELSE handled

(* ws.onerror of socket id *)
onerror(s, id) ==
  LET s1 == apiEmit(s, "error")
  IN IF ~s1.api.setupComplete THEN resolve(s1, id, "false") ELSE s1

(* scheduleReconnect(): timers counts the reconnect timers not yet fired,  *)
(* reconnectTimeout is whether the timer of the stored handle is one of    *)
(* them                                                                    *)
scheduleReconnect(s) ==
  IF s.api.reconnectAttempts >= MAX_RECONNECT_ATTEMPTS THEN s
  ELSE [s EXCEPT !.api.reconnectAttempts = @ + 1,
                 !.api.timers = @ + 1,
                 !.api.reconnectTimeout = TRUE]

(* handleDisconnect() *)
handleDisconnect(s) ==
  LET s1 == apiEmit([s EXCEPT !.api.connected = FALSE,
                              !.api.connecting = FALSE,
                              !.api.ws = 0], "disconnected")
  IN IF s1.api.setupComplete THEN scheduleReconnect(s1) ELSE s1

(* ws.onclose of socket id *)
onclose(s, id) ==
  LET s1 == handleDisconnect(s)
  IN IF ~s1.api.setupComplete THEN resolve(s1, id, "false") ELSE s1

(* the 30 s timeout connect() sets, for the call that created socket id *)
connectTimeout(s, id) ==
  IF ~s.api.setupComplete /\ s.api.connecting
  THEN resolve(apiEmit([close(s, s.api.ws) EXCEPT !.api.connecting = FALSE], "error"),
               id, "false")
  ELSE s

(* the timer scheduleReconnect() sets *)
reconnect(s) ==
  connect([s EXCEPT !.api.setupComplete = FALSE], TRUE)

(* disconnect() *)
disconnect(s) ==
  LET cleared == IF s.api.reconnectTimeout
                 THEN [s EXCEPT !.api.timers = @ - 1, !.api.reconnectTimeout = FALSE]
                 ELSE s
      discarded == IF cleared.api.ws # 0
                   THEN [close(cleared, cleared.api.ws) EXCEPT
                           !.sockets[cleared.api.ws].discarded = TRUE]
                   ELSE cleared
      closed == [discarded EXCEPT !.api.ws = 0]
  IN apiEmit([closed EXCEPT !.api.connected = FALSE,
                            !.api.connecting = FALSE,
                            !.api.reconnectAttempts = 0,
                            !.api.setupComplete = FALSE], "disconnected")

(* ApiService.hardReset() *)
apiHardReset(s) ==
  [disconnect(s) EXCEPT !.api.eventListeners = {}]

(* ---- InactivityService ---- *)

(* the clock advances by ClockStep ms, MaxClockTicks times at most *)
ClockStep == 1000
MaxClockTicks == 4
(* the 'inactive' events a run may emit *)
MaxIdlePeriods == 2
(* the durations setTimeoutDuration() is called with, in ms *)
Durations == {500, 2000}

(* emit(): the event is recorded with whether monitoring was started (by   *)
(* start(), and not stopped since) when it was emitted                     *)
inactivityEmit(s, type) ==
  [s EXCEPT !.inactivity.events =
     Append(@, [type |-> type, started |-> s.inactivity.started])]

setActive(s, active) ==
  IF s.inactivity.isActive = active THEN s
  ELSE inactivityEmit([s EXCEPT !.inactivity.isActive = active],
                      IF active THEN "active" ELSE "inactive")

(* resetTimeout(): timeoutId is whether the handle is non-null, pending    *)
(* whether its timer is still to run, deadline when it runs                *)
resetTimeout(s) ==
  LET cleared == IF s.inactivity.timeoutId
                 THEN [s EXCEPT !.inactivity.pending = FALSE] ELSE s
  IN IF ~cleared.inactivity.isEnabled THEN cleared
     ELSE [cleared EXCEPT !.inactivity.timeoutId = TRUE,
                          !.inactivity.pending = TRUE,
                          !.inactivity.deadline =
                             cleared.inactivity.now + cleared.inactivity.timeoutDuration]

(* start(): tracking is whether the document listeners are attached *)
inactivityStart(s) ==
  IF ~s.inactivity.isEnabled THEN s
  ELSE resetTimeout([s EXCEPT !.inactivity.tracking = TRUE,
                              !.inactivity.started = TRUE])

inactivityStop(s) ==
  setActive([s EXCEPT !.inactivity.tracking = FALSE,
                      !.inactivity.started = FALSE,
                      !.inactivity.pending = IF s.inactivity.timeoutId THEN FALSE ELSE @,
                      !.inactivity.timeoutId = FALSE], TRUE)

setEnabled(s, enabled) ==
  IF enabled THEN [s EXCEPT !.inactivity.isEnabled = TRUE]
  ELSE setActive(inactivityStop([s EXCEPT !.inactivity.isEnabled = FALSE]), TRUE)

setTimeoutDuration(s, duration) ==
  resetTimeout([s EXCEPT !.inactivity.timeoutDuration = Max(1000, duration)])

handleActivity(s) ==
  LET s1 == [s EXCEPT !.inactivity.lastActivityTime = s.inactivity.now]
  IN resetTimeout(IF ~s1.inactivity.isActive THEN setActive(s1, TRUE) ELSE s1)

(* the callback of the timer resetTimeout() sets *)
inactivityTimeout(s) == setActive(s, FALSE)

(* ---- actions ---- *)

Init ==
  /\ audioContext = "none"
  /\ currentTime = 0
  /\ playbackState = "stopped"
  /\ nextStartTime = 0
  /\ scheduledSources = <<>>
  /\ audioQueue = <<>>
  /\ isProcessingQueue = FALSE
  /\ bufferLevel = 0
  /\ totalBufferedDuration = 0
  /\ pcPlay = "idle" /\ pcPause = "idle" /\ pcStop = "idle"
  /\ ctxOps = <<>>
  /\ rafPending = 0
  /\ pendingEnded = {}
  /\ sink = <<>>
  /\ underruns = 0
  /\ nextId = 0
  /\ firstAfterStop = {}
  /\ stopSeen = FALSE
  /\ stopNoPlay = FALSE
  /\ calls = 0
  /\ last = [op |-> "init"]
  /\ volume = <<1, 1>>
  /\ listeners = [type \in EventTypes |-> <<>>]
  /\ delivered = <<>>
  /\ extraStops = 0
  /\ guardReturns = 0
  /\ api = [ws |-> 0, connected |-> FALSE, connecting |-> FALSE,
            setupComplete |-> FALSE, reconnectAttempts |-> 0,
            timers |-> 0, reconnectTimeout |-> FALSE,
            eventListeners |-> {}]
  /\ sockets = <<>>
  /\ orchestrator = [constructed |-> FALSE, playbackState |-> "stopped",
                     isConnected |-> FALSE, play |-> "idle", awaited |-> 0,
                     pause |-> "idle", stop |-> "idle", calls |-> 0,
                     stopDuringConnect |-> FALSE, resetThenPlay |-> "no"]
  /\ inactivity = [timeoutId |-> FALSE, pending |-> FALSE, deadline |-> 0,
                   lastActivityTime |-> 0, isActive |-> TRUE, isEnabled |-> TRUE,
                   timeoutDuration |-> INACTIVITY_TIMEOUT,
                   tracking |-> FALSE, started |-> FALSE,
                   now |-> 0, events |-> <<>>]

Ghosts == UNCHANGED <<firstAfterStop, stopSeen, calls>>

(* initialize() is called (the orchestrator does so before play()) *)
Initialize ==
  /\ audioContext = "none"
  /\ \E made \in {"failed", "suspended", "running"} : Apply(initialize(Self, made))
  /\ last' = [op |-> "initialize"]
  /\ UNCHANGED <<pcPlay, pcPause, pcStop, ctxOps>>
  /\ Ghosts

(* what play() does once the context exists: awaits resume(), or starts *)
PlayStart ==
  IF audioContext' = "suspended"
  THEN /\ pcPlay' = "awaitResume"
       /\ ctxOps' = Append(ctxOps, [kind |-> "resume", owner |-> "play"])
       /\ last' = [op |-> "playAwait"]
  ELSE /\ pcPlay' = "idle" /\ UNCHANGED ctxOps
       /\ last' = [op |-> "playDone"]

(* play() is called. Without a context it runs initialize() and awaits its *)
(* result; with one it goes on to resume() or to the playing state at once *)
PlayCall ==
  /\ pcPlay = "idle" /\ calls < MaxCalls
  /\ calls' = calls + 1
  /\ IF audioContext = "none"
     THEN /\ \E made \in {"failed", "suspended", "running"} :
               /\ Apply(initialize([Self EXCEPT !.stopNoPlay = FALSE], made))
               /\ pcPlay' = IF made = "failed" THEN "initFailed" ELSE "initialized"
          /\ last' = [op |-> "playInit"]
          /\ UNCHANGED ctxOps
     ELSE /\ Apply(IF audioContext = "suspended"
                   THEN [Self EXCEPT !.stopNoPlay = FALSE]
                   ELSE playFinish([Self EXCEPT !.stopNoPlay = FALSE]))
          /\ PlayStart
  /\ UNCHANGED <<pcPause, pcStop, firstAfterStop, stopSeen>>

(* play() continues after `await this.initialize()` *)
PlayAfterInit ==
  /\ pcPlay \in {"initFailed", "initialized"}
  /\ IF pcPlay = "initFailed"
     THEN /\ Apply(Self) /\ pcPlay' = "idle" /\ UNCHANGED ctxOps
          /\ last' = [op |-> "playFailed"]
     ELSE /\ Apply(IF audioContext = "suspended"
                   THEN Self
                   ELSE playFinish(Self))
          /\ PlayStart
  /\ UNCHANGED <<pcPause, pcStop>>
  /\ Ghosts

(* audioContext.resume() of play() resolves *)
PlayResumed ==
  /\ pcPlay = "awaitResume"
  /\ ctxOps # <<>> /\ Head(ctxOps).owner = "play"
  /\ ctxOps' = Tail(ctxOps)
  /\ Apply(playFinish([Self EXCEPT !.audioContext = "running"]))
  /\ pcPlay' = "idle"
  /\ last' = [op |-> "playDone"]
  /\ UNCHANGED <<pcPause, pcStop>>
  /\ Ghosts

(* pause() is called *)
PauseCall ==
  /\ pcPause = "idle" /\ calls < MaxCalls
  /\ calls' = calls + 1
  /\ IF audioContext = "running"
     THEN /\ Apply(Self) /\ pcPause' = "awaitSuspend"
          /\ ctxOps' = Append(ctxOps, [kind |-> "suspend", owner |-> "pause"])
          /\ last' = [op |-> "pauseAwait"]
     ELSE /\ Apply(pauseFinish(Self)) /\ pcPause' = "idle"
          /\ UNCHANGED ctxOps
          /\ last' = [op |-> "pauseDone"]
  /\ UNCHANGED <<pcPlay, pcStop, firstAfterStop, stopSeen>>

(* audioContext.suspend() of pause() resolves *)
PauseSuspended ==
  /\ pcPause = "awaitSuspend"
  /\ ctxOps # <<>> /\ Head(ctxOps).owner = "pause"
  /\ ctxOps' = Tail(ctxOps)
  /\ Apply(pauseFinish([Self EXCEPT !.audioContext = "suspended"]))
  /\ pcPause' = "idle"
  /\ last' = [op |-> "pauseDone"]
  /\ UNCHANGED <<pcPlay, pcStop>>
  /\ Ghosts

(* stop() is called *)
StopCall ==
  /\ pcStop = "idle" /\ calls < MaxCalls
  /\ calls' = calls + 1
  /\ stopSeen' = TRUE
  /\ LET s1 == stopSync([Self EXCEPT !.stopNoPlay = TRUE])
         cutSink == cutLast(sink)
     IN IF audioContext # "none"
        THEN /\ Apply([s1 EXCEPT !.sink = cutSink]) /\ pcStop' = "awaitSuspend"
             /\ ctxOps' = Append(ctxOps, [kind |-> "suspend", owner |-> "stop"])
             /\ last' = [op |-> "stopAwait"]
        ELSE /\ Apply(stopFinish([s1 EXCEPT !.sink = cutSink]))
             /\ pcStop' = "idle" /\ UNCHANGED ctxOps
             /\ last' = [op |-> "stopDone"]
  /\ UNCHANGED <<pcPlay, pcPause, firstAfterStop>>

(* audioContext.suspend() of stop() resolves *)
StopSuspended ==
  /\ pcStop = "awaitSuspend"
  /\ ctxOps # <<>> /\ Head(ctxOps).owner = "stop"
  /\ ctxOps' = Tail(ctxOps)
  /\ Apply(stopFinish([Self EXCEPT !.audioContext = "suspended"]))
  /\ pcStop' = "idle"
  /\ last' = [op |-> "stopDone"]
  /\ UNCHANGED <<pcPlay, pcPause>>
  /\ Ghosts

(* the API service delivers a chunk that decodes to len samples *)
QueueAudioChunk ==
  /\ nextId < MaxChunks
  /\ \E len \in ChunkLens :
       /\ Apply(queueAudioChunk([Self EXCEPT !.nextId = @ + 1], nextId + 1, len))
       /\ last' = [op |-> "queue", id |-> nextId + 1, accepted |-> audioContext # "none"]
  /\ firstAfterStop' = IF stopSeen /\ audioContext # "none"
                       THEN firstAfterStop \cup {nextId + 1} ELSE firstAfterStop
  /\ stopSeen' = IF audioContext # "none" THEN FALSE ELSE stopSeen
  /\ UNCHANGED <<pcPlay, pcPause, pcStop, ctxOps, calls>>

(* the onended callback of a source that has finished or was stopped runs *)
SourceEnded ==
  /\ \E src \in pendingEnded :
       /\ src.stopped \/ currentTime >= src.start + src.dur
       /\ Apply(onended([Self EXCEPT !.pendingEnded = @ \ {src}], src))
       /\ last' = [op |-> "ended", dur |-> src.dur, total |-> totalBufferedDuration,
                   level |-> bufferLevel, stopped |-> src.stopped]
  /\ UNCHANGED <<pcPlay, pcPause, pcStop, ctxOps>>
  /\ Ghosts

(* a requestAnimationFrame callback runs *)
AnimationFrame ==
  /\ rafPending > 0
  /\ Apply(processAudioQueue([Self EXCEPT !.rafPending = @ - 1]))
  /\ last' = [op |-> "raf"]
  /\ UNCHANGED <<pcPlay, pcPause, pcStop, ctxOps>>
  /\ Ghosts

(* the output clock advances while the context is running *)
Tick ==
  /\ audioContext = "running" /\ currentTime < MaxTicks * TimeStep
  /\ Apply([Self EXCEPT !.currentTime = @ + TimeStep])
  /\ last' = [op |-> "tick"]
  /\ UNCHANGED <<pcPlay, pcPause, pcStop, ctxOps>>
  /\ Ghosts

(* on() is called, while the application starts (the orchestrator's        *)
(* constructor and the components' connectedCallback register before any   *)
(* other call): a caller may pass any event type, and a callback that      *)
(* returns or one that throws                                              *)
RECURSIVE SumSizes(_, _)
SumSizes(m, types) ==
  IF types = {} THEN 0
  ELSE LET type == CHOOSE x \in types : TRUE
       IN Len(m[type]) + SumSizes(m, types \ {type})

On ==
  /\ last.op \in {"init", "on"}
  /\ SumSizes(listeners, DOMAIN listeners) < MaxListeners
  /\ \E eventType \in EventTypes \cup {"error"}, callback \in {"returns", "throws"} :
       Apply(on(Self, eventType, callback))
  /\ last' = [op |-> "on"]
  /\ UNCHANGED <<pcPlay, pcPause, pcStop, ctxOps>>
  /\ Ghosts

(* what setVolume must leave alone *)
Frame(s) ==
  [audioQueue |-> s.audioQueue, scheduledSources |-> s.scheduledSources,
   nextStartTime |-> s.nextStartTime, bufferLevel |-> s.bufferLevel,
   playbackState |-> s.playbackState]

(* the volumes callers pass, as <<numerator, denominator>>: below the      *)
(* range, inside it and above it                                           *)
VolumeInputs == {<<-1, 2>>, <<1, 4>>, <<3, 2>>}

(* setVolume(v) is called *)
SetVolume ==
  /\ \E v \in VolumeInputs :
       /\ Apply(setVolume(Self, v))
       /\ last' = [op |-> "setVolume", v |-> v, before |-> Frame(Self)]
  /\ UNCHANGED <<pcPlay, pcPause, pcStop, ctxOps>>
  /\ Ghosts

(* audioContext.resume() of play() rejects (the output device is gone):    *)
(* play() has no try/catch, so the rejection goes to its caller            *)
PlayResumeRejected ==
  /\ pcPlay = "awaitResume"
  /\ ctxOps # <<>> /\ Head(ctxOps).owner = "play"
  /\ ctxOps' = Tail(ctxOps)
  /\ Apply(Self)
  /\ pcPlay' = "idle"
  /\ last' = [op |-> "playRejected"]
  /\ UNCHANGED <<pcPause, pcStop>>
  /\ Ghosts

Next ==
  \/ Initialize
  \/ PlayCall \/ PlayAfterInit \/ PlayResumed
  \/ PauseCall \/ PauseSuspended
  \/ StopCall \/ StopSuspended
  \/ QueueAudioChunk \/ SourceEnded \/ AnimationFrame \/ Tick

Spec == Init /\ [][Next]_vars

(* the samples of the chunks the generation service sends *)
SampleValues == {-32768, -1, 0, 255, 256, 32767}
SampleSeqs == UNION {[1..n -> SampleValues] : n \in 0..MaxSamples}

(* the samples as bytes: 16-bit two's complement, low byte first *)
pcm16Bytes(samples) ==
  [i \in 1..(2 * Len(samples)) |->
     LET unsigned == (samples[(i + 1) \div 2] + 65536) % 65536
     IN IF i % 2 = 1 THEN unsigned % 256 ELSE unsigned \div 256]

(* the base64 text that arrives: that of the samples, of the samples and   *)
(* one more byte, with a character outside the alphabet, or cut to a       *)
(* length of 1 modulo 4                                                    *)
Damages == {"none", "oddByte", "badChar", "cut"}
Damaged(samples, damage) ==
  LET text == btoa(pcm16Bytes(samples))
  IN CASE damage = "none" -> text
       [] damage = "oddByte" -> btoa(Append(pcm16Bytes(samples), 2))
       [] damage = "badChar" ->
            IF text = <<>> THEN <<BAD, 0, 0, 0>> ELSE [text EXCEPT ![1] = BAD]
       [] damage = "cut" ->
            IF text = <<>> THEN <<0>> ELSE SubSeq(text, 1, Len(text) - 3)

(* base64PcmToFloat32 is applied to a text, and the two conversions to the *)
(* bytes of the samples                                                    *)
Decode ==
  /\ \E samples \in SampleSeqs, damage \in Damages :
       last' = [op |-> "decode", samples |-> samples, damage |-> damage,
                decoded |-> base64PcmToFloat32(Damaged(samples, damage)),
                converted |-> int16ArrayToFloat32Array(
                                uint8ArrayToInt16Array(pcm16Bytes(samples)))]
  /\ Apply(Self)
  /\ UNCHANGED <<pcPlay, pcPause, pcStop, ctxOps>>
  /\ Ghosts

(* the decoding functions, applied to the texts that can arrive *)
SpecDecode == Init /\ [][Decode]_vars

(* the chunks delivered to the engine: up to MaxSamples samples of silence *)
SilentSeqs == {[i \in 1..n |-> 0] : n \in 0..MaxSamples}

(* the API service delivers a chunk as base64 text *)
DeliverChunk ==
  /\ nextId < MaxDeliveries
  /\ \E samples \in SilentSeqs, damage \in Damages :
       LET base64Data == Damaged(samples, damage)
           result == queueAudioChunkBase64([Self EXCEPT !.nextId = @ + 1],
                                           nextId + 1, base64Data)
           float32Data == base64PcmToFloat32(base64Data)
       IN /\ Apply(result)
          /\ last' = [op |-> "deliver", id |-> nextId + 1,
                      damage |-> damage,
                      accepted |-> audioContext # "none",
                      decoded |-> float32Data,
                      threw |-> result.threw,
                      before |-> [frame |-> Frame(Self),
                                  total |-> totalBufferedDuration],
                      afterDrop |-> /\ last.op = "deliver" /\ last.accepted
                                    /\ last.decoded.threw]
  /\ UNCHANGED <<pcPlay, pcPause, pcStop, ctxOps, calls, firstAfterStop, stopSeen>>

(* the engine fed with base64 text *)
NextDeliver ==
  \/ Initialize
  \/ PlayCall \/ PlayAfterInit \/ PlayResumed
  \/ PauseCall \/ PauseSuspended
  \/ DeliverChunk
SpecDeliver == Init /\ [][NextDeliver]_vars

(* the engine and its volume control: the calls of the orchestrator, the   *)
(* chunks of the generation service and the clock                          *)
NextVolume ==
  \/ Initialize
  \/ PlayCall \/ PlayAfterInit \/ PlayResumed
  \/ PauseCall \/ PauseSuspended
  \/ StopCall \/ StopSuspended
  \/ QueueAudioChunk \/ Tick
  \/ SetVolume
SpecVolume == Init /\ [][NextVolume]_vars

(* the engine and its listeners: every method that emits an event, with    *)
(* at most MaxCtlCalls calls of play() and stop(), MaxCtlChunks chunks,    *)
(* one step of the clock, and setVolume called with the volume above the   *)
(* range                                                                   *)
NextListeners ==
  \/ On
  \/ Initialize
  \/ (PlayCall /\ calls' <= MaxCtlCalls) \/ PlayAfterInit \/ PlayResumed
  \/ (StopCall /\ calls' <= MaxCtlCalls) \/ StopSuspended
  \/ (QueueAudioChunk /\ nextId' <= MaxCtlChunks)
  \/ (Tick /\ currentTime' <= TimeStep)
  \/ (SetVolume /\ last'.v = <<3, 2>>)
SpecListeners == Init /\ [][NextListeners]_vars

(* on('underrun', callback) is called while the application starts, with   *)
(* a callback that calls back into the engine: stop() or queueAudioChunk() *)
OnReentrant ==
  /\ last.op \in {"init", "on"}
  /\ SumSizes(listeners, DOMAIN listeners) < MaxListeners
  /\ \E callback \in {"stops", "queues"} : Apply(on(Self, "underrun", callback))
  /\ last' = [op |-> "on"]
  /\ UNCHANGED <<pcPlay, pcPause, pcStop, ctxOps>>
  /\ Ghosts

(* stop() is called a second time in a row: right after a stop() call that *)
(* awaits suspend(), or right after one that has finished with no chunk    *)
(* delivered and no play() or pause() called in between                    *)
StopAgain ==
  /\ \/ last.op = "stopAwait"
     \/ /\ last.op = "stopDone" /\ stopSeen /\ stopNoPlay
        /\ pcPlay = "idle" /\ pcPause = "idle"
  /\ IF audioContext # "none"
     THEN LET result == stopInListener(Self)
          IN /\ Apply(result)
             /\ last' = [op |-> "stopAgainAwait", threw |-> result.threw]
     ELSE LET result == stopFinish([stopSync(Self) EXCEPT !.stopNoPlay = TRUE])
          IN /\ Apply(result)
             /\ last' = [op |-> "stopAgainDone", threw |-> result.threw]
  /\ UNCHANGED <<pcPlay, pcPause, pcStop, ctxOps>>
  /\ Ghosts

(* audioContext.suspend() of a stop() counted in extraStops resolves *)
ExtraStopSuspended ==
  /\ extraStops > 0 /\ ctxOps = <<>>
  /\ Apply(stopFinish([Self EXCEPT !.audioContext = "suspended",
                                   !.extraStops = @ - 1]))
  /\ last' = [op |-> "extraStopDone",
              inRow |-> last.op \in {"stopAgainAwait", "stopDone"}]
  /\ UNCHANGED <<pcPlay, pcPause, pcStop, ctxOps>>
  /\ Ghosts

(* a chunk is delivered and createBufferSource() throws at the n-th buffer *)
(* of the drain pass that queueAudioChunk starts                           *)
QueueAudioChunkSourceFails ==
  /\ nextId < MaxChunks
  /\ \E len \in ChunkLens, n \in 1..MaxChunks :
       LET result == queueAudioChunk([Self EXCEPT !.nextId = @ + 1,
                                                 !.sourceFails = n],
                                     nextId + 1, len)
       IN /\ result.passThrew
          /\ Apply(result)
          /\ last' = [op |-> "queueSourceFails", id |-> nextId + 1, n |-> n,
                      sinkBefore |-> Len(sink)]
  /\ firstAfterStop' = IF stopSeen /\ audioContext # "none"
                       THEN firstAfterStop \cup {nextId + 1} ELSE firstAfterStop
  /\ stopSeen' = IF audioContext # "none" THEN FALSE ELSE stopSeen
  /\ UNCHANGED <<pcPlay, pcPause, pcStop, ctxOps, calls>>

(* the engine with listeners of 'underrun' that call back into it. play()  *)
(* is not called while a listener's stop() awaits, so that the context's   *)
(* requests resolve in the order they were made                            *)
NextReentrant ==
  \/ OnReentrant
  \/ Initialize
  \/ (PlayCall /\ calls' <= MaxCtlCalls /\ extraStops = 0)
  \/ PlayAfterInit \/ PlayResumed
  \/ (QueueAudioChunk /\ nextId <= MaxCtlChunks)
  \/ (QueueAudioChunkSourceFails /\ nextId <= MaxCtlChunks)
  \/ SourceEnded \/ AnimationFrame
  \/ (Tick /\ currentTime' <= TimeStep)
  \/ ExtraStopSuspended
SpecReentrant == Init /\ [][NextReentrant]_vars

(* the engine with stop() called twice in a row. play() and pause() are    *)
(* not called while a second stop() awaits, so that the context's requests *)
(* resolve in the order they were made                                     *)
NextStop ==
  \/ Initialize
  \/ (PlayCall /\ extraStops = 0) \/ PlayAfterInit \/ PlayResumed
  \/ (PauseCall /\ extraStops = 0) \/ PauseSuspended
  \/ StopCall \/ StopSuspended
  \/ StopAgain \/ ExtraStopSuspended
  \/ (QueueAudioChunk /\ nextId <= MaxCtlChunks)
  \/ SourceEnded \/ AnimationFrame
  \/ (Tick /\ currentTime' <= TimeStep)
SpecStop == Init /\ [][NextStop]_vars

(* the engine with re-entrant listeners, where the browser runs every       *)
(* requestAnimationFrame callback it was asked for and resolves suspend()  *)
NextLive ==
  \/ OnReentrant
  \/ Initialize
  \/ (PlayCall /\ calls' <= MaxCtlCalls /\ extraStops = 0)
  \/ PlayAfterInit \/ PlayResumed
  \/ (QueueAudioChunk /\ nextId <= MaxCtlChunks)
  \/ SourceEnded \/ AnimationFrame
  \/ (Tick /\ currentTime' <= TimeStep)
  \/ ExtraStopSuspended
SpecLive ==
  Init /\ [][NextLive]_vars /\ WF_vars(AnimationFrame) /\ WF_vars(ExtraStopSuspended)

(* the engine with listeners and an output device that can fail *)
NextDevice == Next \/ On \/ PlayResumeRejected
SpecDevice == Init /\ [][NextDevice]_vars

(* ---- the ApiService, its sockets and its timers ---- *)

EngineWaits == UNCHANGED <<pcPlay, pcPause, pcStop, ctxOps>>

(* connect() is called *)
ApiConnect ==
  /\ Len(sockets) < MaxSockets
  /\ \E apiKey \in BOOLEAN : Apply(connect(Self, apiKey))
  /\ last' = [op |-> "connect"]
  /\ EngineWaits /\ Ghosts

(* disconnect() is called *)
ApiDisconnect ==
  /\ Apply(disconnect(Self))
  /\ last' = [op |-> "disconnect"]
  /\ EngineWaits /\ Ghosts

(* the open event of a socket *)
SocketOpen ==
  /\ \E id \in DOMAIN sockets :
       /\ sockets[id].readyState = "connecting"
       /\ Apply(onopen([Self EXCEPT !.sockets[id].readyState = "open"]))
       /\ last' = [op |-> "open", socket |-> id]
  /\ EngineWaits /\ Ghosts

(* a message event of an open socket: the setup acknowledgement, or server *)
(* content with inline audio data                                          *)
SocketMessage ==
  /\ \E id \in DOMAIN sockets, message \in {"setupComplete", "audio"} :
       /\ sockets[id].readyState = "open"
       /\ message = "audio" => nextId < MaxChunks
       /\ Apply(onmessage(Self, id, message))
       /\ last' = [op |-> "message", socket |-> id, message |-> message,
                   forwarded |-> "audio" \in api.eventListeners]
       /\ LET accepted == /\ message = "audio" /\ "audio" \in api.eventListeners
                          /\ audioContext # "none"
          IN /\ firstAfterStop' = IF stopSeen /\ accepted
                                  THEN firstAfterStop \cup {nextId + 1}
                                  ELSE firstAfterStop
             /\ stopSeen' = IF accepted THEN FALSE ELSE stopSeen
  /\ EngineWaits /\ UNCHANGED calls

(* the error event of a socket; its close event follows *)
SocketError ==
  /\ \E id \in DOMAIN sockets :
       /\ sockets[id].readyState \in {"connecting", "open"}
       /\ Apply(onerror([Self EXCEPT !.sockets[id].readyState = "closing"], id))
       /\ last' = [op |-> "error", socket |-> id]
  /\ EngineWaits /\ Ghosts

(* the close event of a socket: the peer or the network closed it, or      *)
(* close() was called on it                                                *)
SocketClose ==
  /\ \E id \in DOMAIN sockets :
       /\ sockets[id].readyState # "closed"
       /\ Apply(onclose([Self EXCEPT !.sockets[id].readyState = "closed"], id))
       /\ last' = [op |-> "close", socket |-> id,
                   discarded |-> sockets[id].discarded, before |-> api]
  /\ EngineWaits /\ Ghosts

(* the connection timeout of a connect() call runs *)
ConnectTimeout ==
  /\ \E id \in DOMAIN sockets :
       /\ sockets[id].timeout
       /\ Apply(connectTimeout([Self EXCEPT !.sockets[id].timeout = FALSE], id))
       /\ last' = [op |-> "connectTimeout", socket |-> id]
  /\ EngineWaits /\ Ghosts

(* a reconnect timer runs: the one of the stored handle, or an earlier one *)
ReconnectTimer ==
  /\ api.timers > 0 /\ Len(sockets) < MaxSockets
  /\ \E stored \in BOOLEAN :
       /\ stored => api.reconnectTimeout
       /\ ~stored => api.timers > (IF api.reconnectTimeout THEN 1 ELSE 0)
       /\ Apply(reconnect([Self EXCEPT !.api.timers = @ - 1,
                                       !.api.reconnectTimeout =
                                          IF stored THEN FALSE ELSE @]))
  /\ last' = [op |-> "reconnect"]
  /\ EngineWaits /\ Ghosts

(* the ApiService alone, with no listener registered *)
NextApi ==
  \/ ApiConnect \/ ApiDisconnect
  \/ SocketOpen \/ SocketMessage \/ SocketError \/ SocketClose
  \/ ConnectTimeout \/ ReconnectTimer
SpecApi == Init /\ [][NextApi]_vars

(* ---- PromptDJOrchestrator ---- *)

(* the constructor: setupServiceHandlers() registers the handlers of the   *)
(* ApiService events and of the engine's 'state-change'                    *)
Construct ==
  /\ ~orchestrator.constructed
  /\ Apply(on([Self EXCEPT !.api.eventListeners = ApiHandled,
                           !.orchestrator.constructed = TRUE],
              "state-change", "orchestrator"))
  /\ last' = [op |-> "construct"]
  /\ EngineWaits /\ Ghosts

(* the orchestrator has called a method of the engine, which runs next *)
CallDue == last.op \in {"orchCallsPlay", "orchCallsPause", "orchCallsStop"}
(* a promise the orchestrator awaits has settled: the continuation of the  *)
(* awaiting method is a microtask, which runs before any other event       *)
ConnectSettled ==
  /\ orchestrator.play = "awaitConnect"
  /\ sockets[orchestrator.awaited].promise # "pending"
PlaySettled == orchestrator.play = "awaitAudio" /\ pcPlay = "idle" /\ ~CallDue
PauseSettled == orchestrator.pause = "awaitAudio" /\ pcPause = "idle" /\ ~CallDue
StopSettled ==
  orchestrator.stop \in {"awaitAudio", "awaitAudioReset"} /\ pcStop = "idle" /\ ~CallDue
(* a new task (a call from the UI, an event, a timer) can start *)
Free ==
  /\ orchestrator.constructed
  /\ ~CallDue /\ ~ConnectSettled /\ ~PlaySettled /\ ~PauseSettled /\ ~StopSettled

(* play() goes on to `await audioService.play()` *)
orchCallsPlay(s) == [s EXCEPT !.orchestrator.play = "awaitAudio"]
(* play() after a failed connection attempt *)
orchPlayFailed(s) ==
  [s EXCEPT !.orchestrator.playbackState = "stopped", !.orchestrator.play = "idle"]

(* play() is called: audioService.initialize(), and connect() when not     *)
(* connected, up to the await of a promise that is still pending           *)
OrchPlay ==
  /\ Free /\ orchestrator.play = "idle" /\ orchestrator.calls < MaxCalls
  /\ Len(sockets) < MaxSockets
  /\ \E made \in {"failed", "suspended", "running"}, apiKey \in BOOLEAN :
       LET called == [Self EXCEPT !.orchestrator.calls = @ + 1,
                                  !.orchestrator.stopDuringConnect = FALSE,
                                  !.orchestrator.resetThenPlay =
                                     IF @ = "no" THEN "no" ELSE "played"]
           s0 == initialize(called, made)
           s1 == connect([s0 EXCEPT !.orchestrator.playbackState = "connecting"],
                         apiKey)
       IN IF s0.orchestrator.isConnected
          THEN Apply(orchCallsPlay(s0)) /\ last' = [op |-> "orchCallsPlay"]
          ELSE CASE s1.returned.value = "pending" ->
                      /\ Apply([s1 EXCEPT !.orchestrator.play = "awaitConnect",
                                          !.orchestrator.awaited = s1.returned.socket])
                      /\ last' = [op |-> "orchAwaitsConnect"]
                 [] s1.returned.value = "true" ->
                      Apply(orchCallsPlay(s1)) /\ last' = [op |-> "orchCallsPlay"]
                 [] OTHER ->
                      Apply(orchPlayFailed(s1)) /\ last' = [op |-> "orchPlayFailed"]
  /\ EngineWaits /\ Ghosts

(* play() continues after `await apiService.connect()` *)
OrchPlayAfterConnect ==
  /\ ConnectSettled
  /\ IF sockets[orchestrator.awaited].promise = "true"
     THEN Apply(orchCallsPlay(Self)) /\ last' = [op |-> "orchCallsPlay"]
     ELSE Apply(orchPlayFailed(Self)) /\ last' = [op |-> "orchPlayFailed"]
  /\ EngineWaits /\ Ghosts

(* play() continues after `await audioService.play()` and returns *)
OrchPlayDone ==
  /\ PlaySettled
  /\ Apply([Self EXCEPT !.orchestrator.play = "idle"])
  /\ last' = [op |-> "orchPlayDone"]
  /\ EngineWaits /\ Ghosts

(* pause() is called *)
OrchPause ==
  /\ Free /\ orchestrator.pause = "idle" /\ orchestrator.calls < MaxCalls
  /\ Apply([Self EXCEPT !.orchestrator.calls = @ + 1,
                        !.orchestrator.pause = "awaitAudio",
                        !.orchestrator.stopDuringConnect = FALSE])
  /\ last' = [op |-> "orchCallsPause"]
  /\ EngineWaits /\ Ghosts

(* pause() continues after `await audioService.pause()` and returns *)
OrchPauseDone ==
  /\ PauseSettled
  /\ Apply([Self EXCEPT !.orchestrator.playbackState = "paused",
                        !.orchestrator.pause = "idle"])
  /\ last' = [op |-> "orchPauseDone"]
  /\ EngineWaits /\ Ghosts

(* stop() is called *)
OrchStop ==
  /\ Free /\ orchestrator.stop = "idle" /\ orchestrator.calls < MaxCalls
  /\ Apply([Self EXCEPT !.orchestrator.calls = @ + 1,
                        !.orchestrator.stop = "awaitAudio",
                        !.orchestrator.stopDuringConnect =
                           orchestrator.play = "awaitConnect"])
  /\ last' = [op |-> "orchCallsStop"]
  /\ EngineWaits /\ Ghosts

(* hardReset() is called: apiService.hardReset(), up to audioService.stop() *)
OrchHardReset ==
  /\ Free /\ orchestrator.stop = "idle" /\ orchestrator.calls < MaxCalls
  /\ Apply(apiHardReset([Self EXCEPT !.orchestrator.calls = @ + 1,
                                     !.orchestrator.stop = "awaitAudioReset",
                                     !.orchestrator.stopDuringConnect = FALSE,
                                     !.orchestrator.resetThenPlay = "reset"]))
  /\ last' = [op |-> "orchCallsStop"]
  /\ EngineWaits /\ Ghosts

(* stop() or hardReset() continues after `await audioService.stop()` *)
OrchStopDone ==
  /\ StopSettled
  /\ Apply([Self EXCEPT !.orchestrator.playbackState = "stopped",
                        !.orchestrator.isConnected =
                           IF orchestrator.stop = "awaitAudioReset" THEN FALSE ELSE @,
                        !.orchestrator.stop = "idle"])
  /\ last' = [op |-> "orchStopDone"]
  /\ EngineWaits /\ Ghosts

(* the application: the orchestrator drives the engine and the ApiService, *)
(* the sockets deliver their events, the timers run. The chunks the server *)
(* sends here are short, so no drain pass stops at the look-ahead ceiling  *)
(* and no animation frame is ever requested.                               *)
NextApp ==
  \/ Construct
  \/ OrchPlay \/ OrchPlayAfterConnect \/ OrchPlayDone
  \/ OrchPause \/ OrchPauseDone
  \/ OrchStop \/ OrchHardReset \/ OrchStopDone
  \/ (last.op = "orchCallsPlay" /\ PlayCall)
  \/ (last.op = "orchCallsPause" /\ PauseCall)
  \/ (last.op = "orchCallsStop" /\ StopCall)
  \/ (Free /\ PlayAfterInit)
  \/ (Free /\ PlayResumed)
  \/ (Free /\ PauseSuspended)
  \/ (Free /\ StopSuspended)
  \/ (Free /\ SocketOpen)
  \/ (Free /\ SocketMessage)
  \/ (Free /\ SocketError)
  \/ (Free /\ SocketClose)
  \/ (Free /\ ConnectTimeout)
  \/ (Free /\ ReconnectTimer)
  \/ (Free /\ SourceEnded)
  \/ (Free /\ Tick /\ currentTime' <= TimeStep)
SpecApp == Init /\ [][NextApp]_vars

(* ---- the InactivityService, the user and the clock ---- *)

InactivityStart ==
  /\ Apply(inactivityStart(Self)) /\ last' = [op |-> "inactivityStart"]
  /\ EngineWaits /\ Ghosts

InactivityStop ==
  /\ Apply(inactivityStop(Self)) /\ last' = [op |-> "inactivityStop"]
  /\ EngineWaits /\ Ghosts

SetEnabled ==
  /\ \E enabled \in BOOLEAN : Apply(setEnabled(Self, enabled))
  /\ last' = [op |-> "setEnabled"]
  /\ EngineWaits /\ Ghosts

SetTimeoutDuration ==
  /\ \E duration \in Durations : Apply(setTimeoutDuration(Self, duration))
  /\ last' = [op |-> "setTimeoutDuration"]
  /\ EngineWaits /\ Ghosts

(* a tracked document event (mousemove, keydown, ...) while the listeners *)
(* are attached                                                           *)
Activity ==
  /\ inactivity.tracking
  /\ Apply(handleActivity(Self)) /\ last' = [op |-> "activity"]
  /\ EngineWaits /\ Ghosts

TriggerActivity ==
  /\ Apply(handleActivity(Self)) /\ last' = [op |-> "triggerActivity"]
  /\ EngineWaits /\ Ghosts

(* the inactivity timer runs *)
InactivityTimeout ==
  /\ inactivity.pending /\ inactivity.now >= inactivity.deadline
  /\ Cardinality({i \in DOMAIN inactivity.events :
                    inactivity.events[i].type = "inactive"}) < MaxIdlePeriods
  /\ Apply(inactivityTimeout([Self EXCEPT !.inactivity.pending = FALSE]))
  /\ last' = [op |-> "inactivityTimeout"]
  /\ EngineWaits /\ Ghosts

ClockTick ==
  /\ inactivity.now < MaxClockTicks * ClockStep
  /\ Apply([Self EXCEPT !.inactivity.now = @ + ClockStep])
  /\ last' = [op |-> "clock"]
  /\ EngineWaits /\ Ghosts

NextInactivity ==
  \/ InactivityStart \/ InactivityStop \/ SetEnabled \/ SetTimeoutDuration
  \/ Activity \/ TriggerActivity \/ InactivityTimeout \/ ClockTick
SpecInactivity == Init /\ [][NextInactivity]_vars

TypeOK ==
  /\ audioContext \in {"none", "suspended", "running"}
  /\ playbackState \in {"stopped", "playing", "paused"}
  /\ isProcessingQueue = FALSE
  /\ bufferLevel \in 0..BufferFull

RECURSIVE SumLen(_)
SumLen(q) == IF q = <<>> THEN 0 ELSE Head(q).length + SumLen(Tail(q))
RECURSIVE SumDur(_)
SumDur(q) == IF q = <<>> THEN 0 ELSE Head(q).dur + SumDur(Tail(q))

(* a / b < c / d, for positive denominators *)
RatLess(p, q) == p[1] * q[2] < q[1] * p[2]

(***************************************************************************)
(* C1. Order preservation: the segments handed to the sink are in arrival  *)
(* order, each at most once, and the buffers still queued follow them in   *)
(* arrival order, whatever the interleaving.                               *)
(***************************************************************************)
IdsInOrder ==
  LET ids == [i \in 1..Len(sink) |-> sink[i].id] \o
             [i \in 1..Len(audioQueue) |-> audioQueue[i].id]
  IN \A i, j \in 1..Len(ids) : i < j => ids[i] < ids[j]

(* three segments reached the sink in more than one drain pass *)
IdsInOrderWitness ==
  /\ Len(sink) >= 3
  /\ \E i \in 2..Len(sink) : sink[i].nth = 1

(***************************************************************************)
(* C2. Gapless invariant: consecutive segments with no underrun reset and  *)
(* no stop() between them satisfy start(i+1) = start(i) + duration(i).     *)
(***************************************************************************)
Gapless ==
  \A i \in 1..(Len(sink) - 1) :
    (~sink[i + 1].underrun /\ ~sink[i].cut)
      => sink[i + 1].start = sink[i].start + sink[i].dur

(* three buffers of equal length scheduled at t0, t0 + d, t0 + 2d *)
GaplessWitness ==
  \E i \in 1..(Len(sink) - 2) :
    /\ sink[i].dur = sink[i + 1].dur
    /\ sink[i + 1].start = sink[i].start + sink[i].dur
    /\ sink[i + 2].start = sink[i].start + 2 * sink[i].dur

(***************************************************************************)
(* C3. Underrun recovery: a buffer dequeued while nextStartTime < now is   *)
(* started at now (no segment starts in the past), one 'underrun' event is *)
(* emitted for it, and only the first buffer of a pass can be an underrun. *)
(***************************************************************************)
UnderrunRecovery ==
  /\ \A i \in 1..Len(sink) :
       /\ sink[i].underrun <=> sink[i].nstBefore < sink[i].now
       /\ sink[i].underrun => sink[i].start = sink[i].now /\ sink[i].nth = 1
       /\ sink[i].start >= sink[i].now
  /\ underruns = Cardinality({i \in 1..Len(sink) : sink[i].nstBefore < sink[i].now})

(* a buffer was dequeued behind the clock and started at now with one     *)
(* event, and the same pass drained a second buffer right behind it        *)
UnderrunRecoveryWitness ==
  \E i \in 1..(Len(sink) - 1) :
    /\ sink[i].nstBefore < sink[i].now
    /\ sink[i].start = sink[i].now
    /\ sink[i + 1].nth = 2 /\ ~sink[i + 1].underrun
    /\ underruns = 1

(***************************************************************************)
(* C4. After stop() completes the queue and the in-flight set are empty,   *)
(* bufferLevel is 0 and playbackState is 'stopped'.                        *)
(***************************************************************************)
StopLeavesEmpty ==
  last.op = "stopDone" =>
    /\ audioQueue = <<>>
    /\ scheduledSources = <<>>
    /\ bufferLevel = 0
    /\ playbackState = "stopped"

(***************************************************************************)
(* C5. Once stop() has been called, no segment is handed to the sink until *)
(* play() is called again.                                                 *)
(***************************************************************************)
NoScheduleAfterStop ==
  \A i \in 1..Len(sink) : ~sink[i].stopNoPlay

(***************************************************************************)
(* C6. Outside the playing state the scheduler is a no-op: a step that     *)
(* ends in another state (and is not the call of stop()) hands nothing to  *)
(* the sink, leaves nextStartTime alone and at most appends to the queue.  *)
(***************************************************************************)
NoOpOutsidePlaying ==
  [][(playbackState' # "playing" /\ last'.op \notin {"stopAwait", "stopDone"})
       => /\ sink' = sink
          /\ nextStartTime' = nextStartTime
          /\ \/ audioQueue' = audioQueue
             \/ /\ Len(audioQueue') = Len(audioQueue) + 1
                /\ SubSeq(audioQueue', 1, Len(audioQueue)) = audioQueue]_vars

(* a re-check callback ran while paused or stopped and left the queue alone *)
NoOpOutsidePlayingWitness ==
  /\ last.op = "raf"
  /\ playbackState # "playing"
  /\ audioQueue # <<>>

(***************************************************************************)
(* C7. bufferLevel is in [0,1] and equals min(1, totalBufferedDuration/5)  *)
(* in every state, so also on return from every enqueue and completion.    *)
(***************************************************************************)
BufferLevelDerived ==
  /\ bufferLevel >= 0 /\ bufferLevel <= BufferFull
  /\ bufferLevel = Min(BufferFull, totalBufferedDuration)

(* a completion callback has returned with a positive level below full *)
BufferLevelDerivedWitness ==
  /\ last.op = "ended"
  /\ bufferLevel > 0 /\ bufferLevel < BufferFull
  /\ bufferLevel < last.level

(***************************************************************************)
(* C8. Buffer accounting: totalBufferedDuration is the sum of the queued   *)
(* durations and of the in-flight segments' durations.                     *)
(***************************************************************************)
BufferAccounting ==
  totalBufferedDuration = SumLen(audioQueue) + SumDur(scheduledSources)

(***************************************************************************)
(* C9 as stated: a segment that played to its end lowers bufferLevel by    *)
(* its share duration / 5 s, whatever the buffered total.                  *)
(***************************************************************************)
CompletionLowersByShare ==
  (last.op = "ended" /\ ~last.stopped) => bufferLevel = last.level - last.dur

(***************************************************************************)
(* C9 amended: a completion sets bufferLevel to                            *)
(* min(1, max(0, total - duration) / 5): the level never rises, and it     *)
(* falls by exactly duration / 5 s when duration <= total <= 5 s.          *)
(***************************************************************************)
CompletionLowersClamped ==
  last.op = "ended" =>
    /\ bufferLevel = Min(BufferFull, Max(0, last.total - last.dur))
    /\ bufferLevel <= last.level
    /\ (last.dur <= last.total /\ last.total <= BufferFull)
         => bufferLevel = last.level - last.dur

(* a segment completed while more than 5 s were buffered *)
CompletionLowersClampedWitness ==
  /\ last.op = "ended" /\ ~last.stopped
  /\ last.total > BufferFull
  /\ last.level - bufferLevel < last.dur

(***************************************************************************)
(* C10. The first chunk accepted after stop() carries the linear entry     *)
(* fade over its first min(fadeSamples, length) samples: gain i/fadeLength,*)
(* strictly increasing over the ramp.                                      *)
(***************************************************************************)
HasEntryFade(buf, len) ==
  /\ buf.fadeLength = Min(fadeSamples, len)
  /\ buf.fadeLength > 0

(* the ramp applyFadeIn gives a buffer of each length the model delivers *)
RampIncreasing ==
  \A len \in ChunkLens :
    LET buf == applyFadeIn([id |-> 0, length |-> len, fadeLength |-> 0], fadeSamples)
    IN /\ \A i \in 0..(buf.fadeLength - 1) : Gain(buf, i) = <<i, Min(fadeSamples, len)>>
       /\ \A i \in 0..(buf.fadeLength - 2) : RatLess(Gain(buf, i), Gain(buf, i + 1))
       /\ \A i \in buf.fadeLength..(len - 1) : Gain(buf, i) = <<1, 1>>

FadeAfterStop ==
  /\ RampIncreasing
  /\ \A i \in 1..Len(sink) :
       sink[i].id \in firstAfterStop => HasEntryFade(sink[i], sink[i].dur)
  /\ \A i \in 1..Len(audioQueue) :
       audioQueue[i].id \in firstAfterStop => HasEntryFade(audioQueue[i], audioQueue[i].length)

(* the first chunk after a stop() was played with a full ramp *)
FadeAfterStopWitness ==
  \E i \in 1..Len(sink) :
    /\ sink[i].id \in firstAfterStop
    /\ sink[i].fadeLength = fadeSamples
    /\ sink[i].dur > fadeSamples

(* the first chunk after a stop() was shorter than the ramp *)
FadeClampedWitness ==
  \E i \in 1..Len(sink) :
    /\ sink[i].id \in firstAfterStop
    /\ sink[i].fadeLength = sink[i].dur
    /\ sink[i].dur < fadeSamples
(***************************************************************************)
(* C11. The entry fade is never applied to an interior chunk: a segment    *)
(* that starts exactly where the previously scheduled segment ends (no     *)
(* underrun reset, no stop() between them) was enqueued without a fade.    *)
(***************************************************************************)
InteriorNoFade ==
  \A i \in 1..(Len(sink) - 1) :
    (/\ sink[i + 1].start = sink[i].start + sink[i].dur
     /\ ~sink[i + 1].underrun
     /\ ~sink[i].cut)
      => sink[i + 1].fadeLength = 0

(***************************************************************************)
(* C15. playbackState follows the state machine: 'paused' is entered only  *)
(* from 'playing', 'playing' only from 'stopped' or 'paused' by play(),    *)
(* and every state may go to 'stopped'.                                    *)
(***************************************************************************)
StateMachine ==
  [][\/ playbackState' = playbackState
     \/ playbackState' = "stopped"
     \/ /\ playbackState' = "paused" /\ playbackState = "playing"
     \/ /\ playbackState' = "playing" /\ last'.op = "playDone"]_vars

(***************************************************************************)
(* C16. pause() leaves the queue, the in-flight set, the buffered total,   *)
(* bufferLevel and nextStartTime as they are, and a step of play() keeps   *)
(* every queued or in-flight segment, in order, starting none twice.       *)
(***************************************************************************)
SegmentIds(srcs, q) ==
  [i \in 1..Len(srcs) |-> srcs[i].id] \o [i \in 1..Len(q) |-> q[i].id]

PauseKeepsSegments ==
  [][/\ last'.op \in {"pauseAwait", "pauseDone"}
       => /\ audioQueue' = audioQueue
          /\ scheduledSources' = scheduledSources
          /\ totalBufferedDuration' = totalBufferedDuration
          /\ bufferLevel' = bufferLevel
          /\ nextStartTime' = nextStartTime
          /\ sink' = sink
     /\ last'.op \in {"playInit", "playAwait", "playDone", "playFailed"}
       => /\ SegmentIds(scheduledSources', audioQueue')
               = SegmentIds(scheduledSources, audioQueue)
          /\ SubSeq(scheduledSources', 1, Len(scheduledSources)) = scheduledSources
          /\ SubSeq(sink', 1, Len(sink)) = sink
          /\ totalBufferedDuration' = totalBufferedDuration
          /\ bufferLevel' = bufferLevel]_vars

(* pause() has completed with a segment in flight and a buffer queued *)
PauseKeepsSegmentsWitness ==
  /\ last.op = "pauseDone"
  /\ playbackState = "paused"
  /\ scheduledSources # <<>>
  /\ audioQueue # <<>>

(***************************************************************************)
(* C17. When the output device cannot be acquired, play() fails and        *)
(* playbackState is 'stopped' afterwards.                                  *)
(***************************************************************************)
FailedPlayLeavesStopped ==
  last.op = "playFailed" => playbackState = "stopped"
(***************************************************************************)
(* C18. When the output device fails mid-stream (resume() rejects inside   *)
(* play()), playbackState becomes 'stopped', the in-flight segments are    *)
(* cleared and an 'error' event is delivered to listeners.                 *)
(***************************************************************************)
DeviceFailureStops ==
  last.op = "playRejected" =>
    /\ playbackState = "stopped"
    /\ scheduledSources = <<>>
    /\ \E k \in 1..Len(delivered) : delivered[k].type = "error"

(***************************************************************************)
(* C19. setVolume(v) stores v clamped into [0, 1], so the volume is in     *)
(* [0, 1] in every state, and leaves the chunk queue, the in-flight        *)
(* segments, nextStartTime, bufferLevel and playbackState unchanged.       *)
(***************************************************************************)
VolumeClamped ==
  /\ ~RatLess(volume, <<0, 1>>) /\ ~RatLess(<<1, 1>>, volume)
  /\ last.op = "setVolume" =>
       /\ volume = IF RatLess(last.v, <<0, 1>>) THEN <<0, 1>>
                   ELSE IF RatLess(<<1, 1>>, last.v) THEN <<1, 1>>
                   ELSE last.v
       /\ Frame(Self) = last.before

(* a volume above the range was set while playing, with segments in flight *)
(* and chunks queued                                                       *)
VolumeClampedWitness ==
  /\ last.op = "setVolume" /\ last.v = <<3, 2>> /\ volume = <<1, 1>>
  /\ playbackState = "playing"
  /\ scheduledSources # <<>> /\ audioQueue # <<>>

(***************************************************************************)
(* C20. Listener error isolation: when a listener of an event type throws, *)
(* every other listener of that type is still invoked for the event, and   *)
(* the operation that emitted it ends in the state, and with the           *)
(* invocations, it would have with listeners that all return.              *)
(***************************************************************************)
Calm(s) ==
  [s EXCEPT !.listeners =
     [type \in DOMAIN @ |-> [i \in 1..Len(@[type]) |-> "returns"]]]

EngineView(s) ==
  [audioContext |-> s.audioContext, playbackState |-> s.playbackState,
   nextStartTime |-> s.nextStartTime, scheduledSources |-> s.scheduledSources,
   audioQueue |-> s.audioQueue, isProcessingQueue |-> s.isProcessingQueue,
   bufferLevel |-> s.bufferLevel,
   totalBufferedDuration |-> s.totalBufferedDuration, volume |-> s.volume,
   rafPending |-> s.rafPending, underruns |-> s.underruns,
   invoked |-> [k \in 1..Len(s.delivered) |->
                  <<s.delivered[k].type, s.delivered[k].listener>>]]

After == [Self EXCEPT !.delivered = delivered]

(* after a callback that is not the last of its type, the next one follows *)
AllInvoked ==
  \A k \in 1..Len(delivered) :
    delivered[k].listener < Len(listeners[delivered[k].type]) =>
      /\ k < Len(delivered)
      /\ delivered[k + 1].type = delivered[k].type
      /\ delivered[k + 1].listener = delivered[k].listener + 1

ListenersIsolated ==
  [][LET calm == Calm(Self)
     IN /\ AllInvoked'
        /\ last'.op = "setVolume" =>
             EngineView(After') = EngineView(setVolume(calm, last'.v))
        /\ last'.op = "queue" =>
             \E len \in ChunkLens :
               EngineView(After') = EngineView(queueAudioChunk(calm, last'.id, len))
        /\ last'.op = "playDone" =>
             EngineView(After') =
               EngineView(playFinish([calm EXCEPT !.audioContext = "running"]))
        /\ last'.op = "stopDone" =>
             EngineView(After') =
               EngineView(stopFinish(IF pcStop = "awaitSuspend"
                                     THEN [calm EXCEPT !.audioContext = "suspended"]
                                     ELSE stopSync(calm)))]_vars

(* play() told a 'state-change' listener that threw and then the next one, *)
(* and scheduled the queued chunk                                          *)
ListenersIsolatedWitness ==
  /\ last.op = "playDone" /\ playbackState = "playing"
  /\ scheduledSources # <<>>
  /\ \E k \in 1..(Len(delivered) - 1) :
       /\ delivered[k].type = "state-change" /\ delivered[k].callback = "throws"
       /\ delivered[k + 1].type = "state-change"

(***************************************************************************)
(* C12. Decoding fails with an error when the decoded byte length is not a *)
(* multiple of 2, and when the base64 text is malformed.                   *)
(***************************************************************************)
DecodeRejectsBadInput ==
  (last.op = "decode" /\ last.damage # "none") => last.decoded.threw

(***************************************************************************)
(* C13. Decode round-trip: the samples, serialised as little-endian byte   *)
(* pairs (and as base64 of them), decode to as many floats, each equal to  *)
(* sample / 32768.                                                         *)
(***************************************************************************)
DecodeRoundTrip ==
  last.op = "decode" =>
    LET expected == [i \in 1..Len(last.samples) |-> <<last.samples[i], 32768>>]
    IN /\ last.converted = expected
       /\ last.damage = "none" =>
            /\ ~last.decoded.threw
            /\ last.decoded.data = expected

(* a text of -32768 and 32767 was decoded *)
DecodeRoundTripWitness ==
  /\ last.op = "decode" /\ last.damage = "none"
  /\ \E i, j \in 1..Len(last.samples) :
       /\ last.samples[i] = -32768 /\ last.samples[j] = 32767
       /\ last.decoded.data[i] = <<-32768, 32768>>
       /\ last.converted[j] = <<32767, 32768>>

(***************************************************************************)
(* C14. A chunk that fails to decode is dropped without effect:            *)
(* queueAudioChunk does not throw to its caller and leaves the queue,      *)
(* totalBufferedDuration, bufferLevel, nextStartTime, the in-flight set    *)
(* and playbackState unchanged; later valid chunks are still accepted.     *)
(***************************************************************************)
FailedChunkDropped ==
  last.op = "deliver" =>
    /\ ~last.threw
    /\ (last.decoded.threw \/ last.decoded.data = <<>>) =>
         /\ Frame(Self) = last.before.frame
         /\ totalBufferedDuration = last.before.total
    /\ (last.accepted /\ ~last.decoded.threw /\ last.decoded.data # <<>>) =>
         /\ \/ \E i \in 1..Len(audioQueue) : audioQueue[i].id = last.id
            \/ \E i \in 1..Len(sink) : sink[i].id = last.id
         /\ totalBufferedDuration = last.before.total + Len(last.decoded.data)

(* while playing, a chunk failed to decode and the next one was scheduled *)
FailedChunkDroppedWitness ==
  /\ last.op = "deliver" /\ last.afterDrop
  /\ ~last.decoded.threw
  /\ playbackState = "playing"
  /\ \E i \in 1..Len(sink) : sink[i].id = last.id

(***************************************************************************)
(* C21. Look-ahead guard: a buffer is dequeued and scheduled only if, at   *)
(* that moment, nextStartTime - now is below the look-ahead ceiling; a     *)
(* pass that finds the timeline at or beyond the ceiling schedules nothing. *)
(***************************************************************************)
LookaheadGuard ==
  \A i \in 1..Len(sink) : sink[i].nstBefore - sink[i].now < LookaheadCeiling

(***************************************************************************)
(* C22. Look-ahead bound: in every state nextStartTime - now is at most    *)
(* the look-ahead ceiling plus one buffer duration.                        *)
(***************************************************************************)
LongestChunk == CHOOSE l \in ChunkLens : \A m \in ChunkLens : m <= l

LookaheadBound ==
  nextStartTime - currentTime <= LookaheadCeiling + LongestChunk

(***************************************************************************)
(* C23. nextStartTime is reset to the output clock's current time when     *)
(* playback is stopped: immediately after stop(), nextStartTime = now.     *)
(***************************************************************************)
StopResetsToNow ==
  last.op \in {"stopAwait", "stopDone"} => nextStartTime = currentTime

(***************************************************************************)
(* C24. The first segment scheduled on a fresh engine, or after stop()     *)
(* with nothing scheduled since, emits no 'underrun' event.                *)
(***************************************************************************)
FirstSegmentNoUnderrun ==
  \A i \in 1..Len(sink) : (i = 1 \/ sink[i - 1].cut) => ~sink[i].underrun

(***************************************************************************)
(* C29. When a scheduled segment finishes, its completion callback         *)
(* re-invokes the drain routine, so that queued buffers are pulled: while  *)
(* playing, the callback leaves no buffer queued below the look-ahead      *)
(* ceiling.                                                                *)
(***************************************************************************)
CompletionRedrains ==
  (last.op = "ended" /\ ~last.stopped /\ playbackState = "playing") =>
    \/ audioQueue = <<>>
    \/ nextStartTime - currentTime >= LookaheadCeiling


(* C25: while playbackState = 'playing', nextStartTime never decreases     *)
(* across any step.                                                        *)
NextStartMonotone ==
  [][(playbackState = "playing" /\ playbackState' = "playing")
       => nextStartTime' >= nextStartTime]_vars


(* C26: when stop() is called from an 'underrun' listener while            *)
(* processAudioQueue is inside its drain loop, the in-flight set and the   *)
(* queue are empty when the pass returns (no segment is started after      *)
(* stop() has cleared the in-flight set).                                  *)
StopSafeMidSchedule ==
  (\E k \in 1..Len(delivered) :
      delivered[k].type = "underrun" /\ delivered[k].callback = "stops")
    => scheduledSources = <<>> /\ audioQueue = <<>>

(* C28: at most one drain pass is active at a time: every segment was      *)
(* scheduled by a pass that was the only one on the stack, no buffer is    *)
(* scheduled twice or left both scheduled and queued, and the in-progress  *)
(* flag is clear once the pass has ended, also when it ended by an         *)
(* exception.                                                              *)
DrainGuard ==
  /\ isProcessingQueue = FALSE
  /\ \A i \in 1..Len(sink) : sink[i].depth = 1
  /\ \A i, j \in 1..Len(sink) : i # j => sink[i].id # sink[j].id
  /\ \A i \in 1..Len(sink), j \in 1..Len(audioQueue) : sink[i].id # audioQueue[j].id

(* a listener queued a chunk during a pass, its processAudioQueue() call   *)
(* returned at the flag, the pass scheduled a segment and then ended by an *)
(* exception                                                               *)
DrainGuardWitness ==
  /\ last.op = "queueSourceFails"
  /\ guardReturns > 0
  /\ Len(sink) > last.sinkBefore


(* the fields stop() assigns *)
StopView(s) ==
  [audioQueue |-> s.audioQueue, scheduledSources |-> s.scheduledSources,
   totalBufferedDuration |-> s.totalBufferedDuration, bufferLevel |-> s.bufferLevel,
   nextStartTime |-> s.nextStartTime, playbackState |-> s.playbackState]

(* C27: stop() is idempotent: a stop() called right after another stop()   *)
(* leaves the queue, the in-flight set, the totals, nextStartTime and      *)
(* playbackState as the first call left them, in its synchronous part and  *)
(* in its part after the await, and raises no error.                       *)
StopIdempotent ==
  [][(\/ last'.op \in {"stopAgainAwait", "stopAgainDone"}
      \/ last'.op = "extraStopDone" /\ last'.inRow)
       => /\ StopView(Self)' = StopView(Self)
          /\ last'.op # "extraStopDone" => ~last'.threw]_vars

(* the first stop() halted segments that were playing, and the second      *)
(* stop() has finished                                                     *)
StopIdempotentWitness ==
  /\ last.op = "extraStopDone" /\ last.inRow
  /\ playbackState = "stopped"
  /\ \E p \in pendingEnded : p.stopped


(* C30: while playbackState stays 'playing' and the requestAnimationFrame  *)
(* callbacks are run, every buffer in the queue is eventually handed to    *)
(* the sink, also a buffer left behind at the look-ahead ceiling or queued *)
(* by a listener whose processAudioQueue() call returned at the flag.      *)
ForwardProgress ==
  \A id \in 1..MaxChunks :
    ((\E i \in 1..Len(audioQueue) : audioQueue[i].id = id) /\ playbackState = "playing")
      ~> ((\E i \in 1..Len(sink) : sink[i].id = id) \/ playbackState # "playing")

(* a listener queued a chunk during a pass, its processAudioQueue() call   *)
(* returned at the flag, and the pass ended at the ceiling with a buffer   *)
(* left in the queue and a callback requested                              *)
ForwardProgressWitness ==
  /\ playbackState = "playing"
  /\ audioQueue # <<>>
  /\ guardReturns > 0
  /\ rafPending > 0


(* C31: every segment whose scheduling takes the underrun branch           *)
(* (nextStartTime < now) was enqueued with the fade-in applied.            *)
GapSegmentFaded ==
  \A i \in 1..Len(sink) : sink[i].underrun => sink[i].fadeLength > 0


(* the ids of the buffers of a queue, and of the segments of the sink *)
QueuedIds(q) == [i \in 1..Len(q) |-> q[i].id]

(* a chunk delivered before the context exists changes nothing; one        *)
(* delivered while the engine is not playing is appended to the queue and  *)
(* nothing is scheduled                                                    *)
RetainsChunk ==
  last'.op = "queue" =>
    IF audioContext = "none"
    THEN EngineView(Self)' = EngineView(Self) /\ sink' = sink
    ELSE playbackState # "playing" =>
           /\ QueuedIds(audioQueue') = Append(QueuedIds(audioQueue), last'.id)
           /\ sink' = sink /\ scheduledSources' = scheduledSources

(* the step in which play() reaches the playing state schedules the first  *)
(* n buffers of the queue, in order, and leaves the others, in order       *)
PlaySchedules(n) ==
  /\ QueuedIds(sink') = QueuedIds(sink) \o SubSeq(QueuedIds(audioQueue), 1, n)
  /\ QueuedIds(audioQueue') = SubSeq(QueuedIds(audioQueue), n + 1, Len(audioQueue))

(* C32 as stated: chunks accepted while the engine is initialized but not  *)
(* playing are retained in the queue in arrival order and are all          *)
(* scheduled, in that order, by the next play(); chunks arriving before    *)
(* the context exists are dropped with no state change.                    *)
RetainedAllScheduledByPlay ==
  [][/\ RetainsChunk
     /\ last'.op = "playDone" => PlaySchedules(Len(audioQueue))]_vars

(* C32, amended: the retained chunks are scheduled in arrival order by the *)
(* next play() up to the look-ahead ceiling: play() schedules at least the *)
(* first, stops once nextStartTime is more than the ceiling ahead of the   *)
(* clock, and leaves the others queued, in order, with a callback          *)
(* requested for them.                                                     *)
RetainedScheduledToCeiling ==
  [][/\ RetainsChunk
     /\ last'.op = "playDone" =>
          \E n \in 0..Len(audioQueue) :
            /\ PlaySchedules(n)
            /\ audioQueue # <<>> => n >= 1
            /\ \/ n = Len(audioQueue) /\ rafPending' = rafPending
               \/ /\ n < Len(audioQueue)
                  /\ nextStartTime' - currentTime' > LookaheadCeiling
                  /\ rafPending' = rafPending + 1]_vars

(* the only call was a play(), which found two chunks retained, scheduled  *)
(* the first and left the second behind the ceiling                        *)
RetainedScheduledToCeilingWitness ==
  /\ last.op = "playDone" /\ calls = 1
  /\ QueuedIds(sink) = <<1>>
  /\ QueuedIds(audioQueue) = <<2>>
  /\ rafPending = 1

(* C36: a close event delivered for a socket that disconnect() discarded,   *)
(* while a newer connection exists, leaves this.ws, connected, connecting  *)
(* and the reconnect timers as they were.                                  *)
LateCloseHarmless ==
  (last.op = "close" /\ last.discarded /\ last.before.ws # 0) =>
    /\ api.ws = last.before.ws
    /\ api.connected = last.before.connected
    /\ api.connecting = last.before.connecting
    /\ api.timers = last.before.timers

(* no play(), pause(), stop() or hardReset() of the orchestrator is in progress *)
OrchestratorIdle ==
  /\ orchestrator.constructed
  /\ orchestrator.play = "idle" /\ orchestrator.pause = "idle"
  /\ orchestrator.stop = "idle"

(* C33: when stop() was called while play() awaited the connection, and    *)
(* both calls have finished, the engine is 'stopped'.                      *)
StopDuringConnectStops ==
  (orchestrator.stopDuringConnect /\ OrchestratorIdle) => playbackState = "stopped"

(* C34: whenever no orchestrator operation is in progress, the             *)
(* orchestrator's playbackState equals the engine's.                       *)
PlaybackStatesAgree ==
  OrchestratorIdle => orchestrator.playbackState = playbackState

(* C35: after hardReset() followed by play(), an 'audio' event of the      *)
(* ApiService is forwarded to queueAudioChunk.                             *)
ResetKeepsAudioHandler ==
  (last.op = "message" /\ last.message = "audio"
     /\ orchestrator.resetThenPlay = "played") => last.forwarded

(* emitted events alternate between 'inactive' and 'active' *)
EventsAlternate ==
  \A i \in 1..(Len(inactivity.events) - 1) :
    inactivity.events[i].type # inactivity.events[i + 1].type

(* C37: 'inactive' is emitted only while monitoring is started (not after  *)
(* stop() without a later start(), whatever is called then), and the       *)
(* emitted events strictly alternate between 'inactive' and 'active'.      *)
InactiveOnlyWhileStarted ==
  /\ \A i \in DOMAIN inactivity.events :
       inactivity.events[i].type = "inactive" => inactivity.events[i].started
  /\ EventsAlternate

====
